---- MODULE Spec2Model ----
(***************************************************************************)
(* Model of src/src/main.rs: the flood-it solver.                          *)
(*                                                                         *)
(*   Grid::flood_fill   lines  72-136  stack-based region recolouring      *)
(*   Grid::is_complete  lines 138-141                                      *)
(*   Grid::apply_solution lines 24-29                                      *)
(*   solve              lines 144-248  depth-first search with a visited   *)
(*                                     set and a length bound              *)
(*                                                                         *)
(* Two specifications share the module:                                    *)
(*   Spec      one call of solve on a grid of Grids or on a test input     *)
(*   SpecFill  one call of flood_fill, one loop iteration per step         *)
(***************************************************************************)
EXTENDS Integers, Sequences, FiniteSets

VARIABLES
    \* ---- one call of solve(grid, output_grids) ----
    grid,           \* the caller's Grid, passed as &mut Grid
    grid0,          \* history: the value of grid when solve was called
    stack,          \* Vec<SearchState>, top is the last element
    visited,        \* HashSet<DMatrix<u8>>
    best_solution,  \* Vec<u8>
    min_length,     \* usize
    pc,             \* position in solve: "idle", "begin", "seed", "loop", "done"
    result,         \* the returned Vec<u8> (meaningful when pc = "done")
    pushed,         \* history: every SearchState pushed on stack, in push order
    fill_log,       \* history: every flood_fill call solve made on a clone, as
                    \* [origin, target]: the clone's origin color and the argument
    \* ---- one call of self.flood_fill(target_color) ----
    self,           \* the Grid being filled, mutated in place
    self0,          \* history: the value of self at the call
    target_color,   \* the argument
    source_color,   \* local, read at line 77
    fill_stack,     \* local Vec<(usize, usize)> of (x, y), top is the last element
    fill_visited,   \* local vec![vec![false; width]; height], indexed <<y, x>>
    fill_pc         \* position in flood_fill: "idle", "enter", "loop", "done",
                    \* "panic" (the assertion of line 94 failed)

solve_vars == <<grid, grid0, stack, visited, best_solution, min_length, pc, result,
                pushed, fill_log>>
fill_vars == <<self, self0, target_color, source_color, fill_stack, fill_visited, fill_pc>>
vars == <<grid, grid0, stack, visited, best_solution, min_length, pc, result,
          pushed, fill_log,
          self, self0, target_color, source_color, fill_stack, fill_visited, fill_pc>>

(***************************************************************************)
(* Bounds of the model.                                                    *)
(***************************************************************************)
MaxCells == 5
MaxColors == 3

(***************************************************************************)
(* Grid (lines 6-12).  data is indexed <<row, column>> = <<y, x>>, as      *)
(* self.data[(y, x)] in the source.                                        *)
(***************************************************************************)
Cells(w, h) == (0 .. (h - 1)) \X (0 .. (w - 1))

MkGrid(w, h, k, d) == [width |-> w, height |-> h, colors |-> k, data |-> d]

\* A grid given by its rows, as Grid::from_csv builds it (lines 39-56).
RECURSIVE MaxOfSet(_)
MaxOfSet(S) ==
    IF S = {} THEN 0
    ELSE LET e == CHOOSE e \in S : TRUE
             m == MaxOfSet(S \ {e})
         IN IF e > m THEN e ELSE m

from_csv(rows) ==
    LET height == Len(rows)
        width == Len(rows[1])
        data == [c \in Cells(width, height) |-> rows[c[1] + 1][c[2] + 1]]
        colors == MaxOfSet({data[c] + 1 : c \in Cells(width, height)})
    IN MkGrid(width, height, colors, data)

Shapes == {s \in (1 .. MaxCells) \X (1 .. MaxCells) : s[1] * s[2] <= MaxCells}

Grids ==
    UNION {
        UNION { {MkGrid(s[1], s[2], k, d) : d \in [Cells(s[1], s[2]) -> 0 .. (k - 1)]}
                : k \in 1 .. MaxColors }
        : s \in Shapes }

\* The input of tests::test_sample_input (line 335).
SampleGrid == from_csv(<< <<1, 2, 0, 0>>, <<0, 1, 1, 0>>, <<2, 2, 0, 1>>, <<0, 0, 0, 1>> >>)

\* The input of tests::test_simplest_input (line 314).
SimplestGrid == from_csv(<< <<0, 1>>, <<1, 1>> >>)

TestGrids == {SampleGrid, SimplestGrid}

\* A 2x3 grid with 3 colors, rows 0,2 / 0,1 / 1,2, added to the inputs: two
\* moves (1 then 2) complete it.
NonMinimalGrid == from_csv(<< <<0, 2>>, <<0, 1>>, <<1, 2>> >>)

\* A 3x3 grid with 3 colors, rows 0,0,1 / 1,2,0 / 2,0,2, added to the inputs:
\* the search records a solution and later a shorter one.
TwoBestGrid == from_csv(<< <<0, 0, 1>>, <<1, 2, 0>>, <<2, 0, 2>> >>)

ExtraGrids == {NonMinimalGrid, TwoBestGrid}

(***************************************************************************)
(* Grid::is_complete (lines 138-141).                                      *)
(***************************************************************************)
is_complete(g) ==
    LET target == g.data[<<0, 0>>]
    IN \A c \in DOMAIN g.data : g.data[c] = target

(***************************************************************************)
(* Grid::flood_fill (lines 72-136), as a frame                             *)
(*   [data, source_color, target_color, stack, visited, pc]                *)
(* advanced one loop iteration at a time.                                  *)
(***************************************************************************)

\* Lines 107-133 without the Down branch: the mutant of Neighbours.
NeighboursNoDown(x, y, w, h) ==
    (IF x > 0 THEN << <<x - 1, y>> >> ELSE << >>)
    \o (IF x < w - 1 THEN << <<x + 1, y>> >> ELSE << >>)
    \o (IF y > 0 THEN << <<x, y - 1>> >> ELSE << >>)

\* The in-grid neighbours of (x, y) in the order the code tries them:
\* Left, Right, Up, Down (the guards of lines 108, 115, 122, 129).
Neighbours(x, y, w, h) ==
    (IF x > 0 THEN << <<x - 1, y>> >> ELSE << >>)
    \o (IF x < w - 1 THEN << <<x + 1, y>> >> ELSE << >>)
    \o (IF y > 0 THEN << <<x, y - 1>> >> ELSE << >>)
    \o (IF y < h - 1 THEN << <<x, y + 1>> >> ELSE << >>)

\* Lines 110, 117, 124, 131 pushing (y, x) for (x, y): the mutant of
\* PushNeighbours.
RECURSIVE PushNeighboursSwapped(_, _, _, _, _)
PushNeighboursSwapped(stk, ns, data, vis, src) ==
    IF ns = << >> THEN stk
    ELSE LET n == Head(ns)
             c == <<n[2], n[1]>>
         IN PushNeighboursSwapped(
                IF ~vis[c] /\ data[c] = src THEN Append(stk, <<n[2], n[1]>>) ELSE stk,
                Tail(ns), data, vis, src)

\* The inner tests of lines 109, 116, 123, 130: push a neighbour that is not
\* visited and has the source colour.
RECURSIVE PushNeighbours(_, _, _, _, _)
PushNeighbours(stk, ns, data, vis, src) ==
    IF ns = << >> THEN stk
    ELSE LET n == Head(ns)
             c == <<n[2], n[1]>>
         IN PushNeighbours(
                IF ~vis[c] /\ data[c] = src THEN Append(stk, n) ELSE stk,
                Tail(ns), data, vis, src)

\* Line 80 with the early return missing: the mutant of SameColor.
SameColorNever(source, target) == FALSE

\* The no-op test of line 80.
SameColor(source, target) == source = target

\* Lines 77-90: read the source colour, return at once when it is the target,
\* otherwise seed the stack with (0, 0) and clear the visited matrix.
FillEnter(g, target) ==
    LET source == g.data[<<0, 0>>]
    IN IF SameColor(source, target)
       THEN [data |-> g.data, source_color |-> source, target_color |-> target,
             stack |-> << >>, visited |-> [c \in Cells(g.width, g.height) |-> FALSE],
             pc |-> "done"]
       ELSE [data |-> g.data, source_color |-> source, target_color |-> target,
             stack |-> << <<0, 0>> >>,
             visited |-> [c \in Cells(g.width, g.height) |-> FALSE],
             pc |-> "loop"]

\* Lines 92-135: one iteration of `while let Some((x, y)) = stack.pop()`.
\* A popped coordinate outside the grid fails the assertion of line 94.
FillIter(w, h, fr) ==
    LET n == Len(fr.stack)
        top == fr.stack[n]
        rest == SubSeq(fr.stack, 1, n - 1)
        x == top[1]
        y == top[2]
        c == <<y, x>>
    IN IF ~(x < w /\ y < h)
       THEN [fr EXCEPT !.stack = rest, !.pc = "panic"]
       ELSE IF fr.visited[c]
       THEN [fr EXCEPT !.stack = rest]
       ELSE IF fr.data[c] = fr.source_color
            THEN LET data1 == [fr.data EXCEPT ![c] = fr.target_color]
                     vis1 == [fr.visited EXCEPT ![c] = TRUE]
                 IN [fr EXCEPT !.data = data1,
                               !.visited = vis1,
                               !.stack = PushNeighbours(rest, Neighbours(x, y, w, h),
                                                        data1, vis1, fr.source_color)]
            ELSE [fr EXCEPT !.stack = rest]

\* Lines 92-135: the loop, run to its end.  (In this and the other loops the
\* next iteration is bound through a singleton set, which makes TLC compute
\* each iteration once.)
RECURSIVE FillLoop(_, _, _)
FillLoop(w, h, fr) ==
    IF fr.stack = << >> \/ fr.pc = "panic" THEN fr.data
    ELSE CHOOSE d \in {FillLoop(w, h, nx) : nx \in {FillIter(w, h, fr)}} : TRUE

\* The whole call: the grid after self.flood_fill(target).
flood_fill(g, target) ==
    LET fr == FillEnter(g, target)
    IN IF fr.pc = "done" THEN g
       ELSE [g EXCEPT !.data = FillLoop(g.width, g.height, fr)]

(***************************************************************************)
(* Grid::apply_solution (lines 24-29): the grid after the moves; the       *)
(* returned bool is is_complete of it.                                     *)
(***************************************************************************)
RECURSIVE apply_moves(_, _)
apply_moves(g, solution) ==
    IF solution = << >> THEN g
    ELSE CHOOSE r \in {apply_moves(nx, Tail(solution)) :
                           nx \in {flood_fill(g, Head(solution))}} : TRUE

apply_solution(g, solution) == is_complete(apply_moves(g, solution))

(***************************************************************************)
(* solve (lines 144-248).                                                  *)
(***************************************************************************)

\* Line 150 with the early return missing: the mutant of AlreadyComplete.
AlreadyCompleteNever(g) == FALSE

\* The test of line 150.
AlreadyComplete(g) == is_complete(g)

\* Line 162 with the bound colors * cells: the mutant of InitialMinLength.
InitialMinLengthByColors(g) == g.colors * g.width * g.height

\* Line 162: the initial value of min_length.
InitialMinLength(g) == g.width * g.height

\* Lines 168-169 filling the caller's grid instead of a clone: the mutant of SeedFill.
SeedFillInPlace(g, color) ==
    [grid |-> flood_fill(g, color), temp_grid |-> flood_fill(g, color)]

\* Lines 168-169: temp_grid = grid.clone(); temp_grid.flood_fill(color).
\* The caller's grid is left as it is.
SeedFill(g, color) ==
    [grid |-> g, temp_grid |-> flood_fill(g, color)]

\* Lines 171 and 227 pushing whether or not the snapshot is new: the mutant
\* of Unseen.
UnseenAlways(snapshot, seen) == TRUE

\* Lines 171 and 227: visited.insert(snapshot) returns true when the snapshot
\* was not in the set.
Unseen(snapshot, seen) == snapshot \notin seen

\* Lines 166-177: the body of the seeding loop for one color, on
\* s = [grid, visited, stack, pushed, fill_log].
SeedStep(s, color) ==
    IF color # s.grid.data[<<0, 0>>]
    THEN LET f == SeedFill(s.grid, color)
             call == [origin |-> s.grid.data[<<0, 0>>], target |-> color]
             state == [moves |-> <<color>>, grid_state |-> f.temp_grid.data]
         IN IF Unseen(f.temp_grid.data, s.visited)
            THEN [grid |-> f.grid,
                  visited |-> s.visited \cup {f.temp_grid.data},
                  stack |-> Append(s.stack, state),
                  pushed |-> Append(s.pushed, state),
                  fill_log |-> Append(s.fill_log, call)]
            ELSE [s EXCEPT !.grid = f.grid,
                           !.fill_log = Append(s.fill_log, call)]
    ELSE s

\* Line 165 starting at color 1: the mutant of FirstColor.
FirstColorOne(g) == 1

\* Lines 165 and 215: `for color in 0..grid.colors` starts at 0.
FirstColor(g) == 0

\* Lines 165-178: `for color in 0..grid.colors`, ascending.
RECURSIVE SeedLoop(_, _)
SeedLoop(s, color) ==
    IF color >= s.grid.colors THEN s
    ELSE CHOOSE r \in {SeedLoop(nx, color + 1) : nx \in {SeedStep(s, color)}} : TRUE

\* Line 181 popping the oldest entry: the mutant of PopState.
PopStateFront(stk) == [state |-> Head(stk), rest |-> Tail(stk)]

\* Line 181 reading the last entry without removing it: the mutant of PopState.
PopStatePeek(stk) == [state |-> stk[Len(stk)], rest |-> stk]

\* Line 181: stack.pop() takes the last pushed entry.
PopState(stk) == [state |-> stk[Len(stk)], rest |-> SubSeq(stk, 1, Len(stk) - 1)]

\* Line 182 off by one: the mutant of Pruned.
PrunedEarly(moves, bound) == Len(moves) + 1 >= bound

\* Line 182 off by one the other way: the mutant of Pruned.
PrunedLate(moves, bound) == Len(moves) > bound

\* Line 182: the bound test.
Pruned(moves, bound) == Len(moves) >= bound

\* Line 197 not storing the moves: the mutant of NewBest.
NewBestKeep(moves, best) == best

\* Line 197: best_solution = state.moves.clone().
NewBest(moves, best) == moves

\* Line 198 not lowering the bound: the mutant of NewMinLength.
NewMinLengthKeep(moves, bound) == bound

\* Line 198: min_length = state.moves.len().
NewMinLength(moves, bound) == Len(moves)

\* Lines 187-192: the grid rebuilt from a search state.
TempGrid(g, state) ==
    [width |-> g.width, height |-> g.height, colors |-> g.colors,
     data |-> state.grid_state]

\* Line 229 pushing the previous move again: the mutant of NextMoves.
NextMovesRepeat(moves, color) == Append(moves, moves[Len(moves)])

\* Lines 228-229: next_moves = state.moves.clone(); next_moves.push(color).
NextMoves(moves, color) == Append(moves, color)

\* Line 219 with the skip missing: the mutant of SkipColor.
SkipColorNever(color, temp_grid, moves) == FALSE

\* Line 219: the moves the expansion skips.
SkipColor(color, temp_grid, moves) ==
    color = temp_grid.data[<<0, 0>>] \/ (moves # << >> /\ moves[Len(moves)] = color)

\* Line 237 pushing the parent's snapshot: the mutant of PushedSnapshot.
PushedSnapshotStale(temp_grid, next_grid) == temp_grid.data

\* Line 237: grid_state: next_grid.data.clone().
PushedSnapshot(temp_grid, next_grid) == next_grid.data

\* Lines 216-239: the body of the expansion loop for one color, on
\* e = [visited, stack, pushed, fill_log].
ExpandStep(e, state, temp_grid, color) ==
    IF SkipColor(color, temp_grid, state.moves) THEN e
    ELSE CHOOSE r \in
           {LET call == [origin |-> temp_grid.data[<<0, 0>>], target |-> color]
                next == [moves |-> NextMoves(state.moves, color),
                         grid_state |-> PushedSnapshot(temp_grid, next_grid)]
            IN IF Unseen(next_grid.data, e.visited)
               THEN [visited |-> e.visited \cup {next_grid.data},
                     stack |-> Append(e.stack, next),
                     pushed |-> Append(e.pushed, next),
                     fill_log |-> Append(e.fill_log, call)]
               ELSE [e EXCEPT !.fill_log = Append(e.fill_log, call)] :
            next_grid \in {flood_fill(temp_grid, color)}} : TRUE

\* Lines 215-240: `for color in 0..grid.colors`, ascending.
RECURSIVE ExpandLoop(_, _, _, _)
ExpandLoop(e, state, temp_grid, color) ==
    IF color >= temp_grid.colors THEN e
    ELSE CHOOSE r \in {ExpandLoop(nx, state, temp_grid, color + 1) :
                           nx \in {ExpandStep(e, state, temp_grid, color)}} : TRUE

\* Lines 145-162: the early return on a complete grid, otherwise the
\* declarations of the search state.
Begin ==
    /\ pc = "begin"
    /\ IF AlreadyComplete(grid)
       THEN /\ pc' = "done"
            /\ result' = << >>
            /\ UNCHANGED <<stack, visited, best_solution, min_length>>
       ELSE /\ pc' = "seed"
            /\ stack' = << >>
            /\ visited' = {}
            /\ best_solution' = << >>
            /\ min_length' = InitialMinLength(grid)
            /\ UNCHANGED result
    /\ UNCHANGED <<grid, grid0, pushed, fill_log>>
    /\ UNCHANGED fill_vars

\* Lines 164-178: the seeding loop.
Seed ==
    /\ pc = "seed"
    /\ \E s \in {SeedLoop([grid |-> grid, visited |-> visited, stack |-> stack,
                           pushed |-> pushed, fill_log |-> fill_log],
                          FirstColor(grid))} :
          /\ grid' = s.grid
          /\ visited' = s.visited
          /\ stack' = s.stack
          /\ pushed' = s.pushed
          /\ fill_log' = s.fill_log
    /\ pc' = "loop"
    /\ UNCHANGED <<grid0, best_solution, min_length, result>>
    /\ UNCHANGED fill_vars

\* Lines 181-184: a popped state at or over the bound is dropped.
PopPrune ==
    /\ pc = "loop"
    /\ stack # << >>
    /\ LET p == PopState(stack)
       IN /\ Pruned(p.state.moves, min_length)
          /\ stack' = p.rest
    /\ UNCHANGED <<grid, grid0, visited, best_solution, min_length, pc, result,
                   pushed, fill_log>>
    /\ UNCHANGED fill_vars

\* Lines 181-212: a popped complete state under the bound becomes the best.
PopComplete ==
    /\ pc = "loop"
    /\ stack # << >>
    /\ LET p == PopState(stack)
       IN /\ ~Pruned(p.state.moves, min_length)
          /\ is_complete(TempGrid(grid, p.state))
          /\ IF Len(p.state.moves) < min_length
             THEN /\ best_solution' = NewBest(p.state.moves, best_solution)
                  /\ min_length' = NewMinLength(p.state.moves, min_length)
             ELSE UNCHANGED <<best_solution, min_length>>
          /\ stack' = p.rest
    /\ UNCHANGED <<grid, grid0, visited, pc, result, pushed, fill_log>>
    /\ UNCHANGED fill_vars

\* Lines 181-240: a popped incomplete state under the bound is expanded.
PopExpand ==
    /\ pc = "loop"
    /\ stack # << >>
    /\ LET p == PopState(stack)
           temp_grid == TempGrid(grid, p.state)
       IN /\ ~Pruned(p.state.moves, min_length)
          /\ ~is_complete(temp_grid)
          /\ \E e \in {ExpandLoop([visited |-> visited, stack |-> p.rest,
                                   pushed |-> pushed, fill_log |-> fill_log],
                                  p.state, temp_grid, FirstColor(grid))} :
                /\ visited' = e.visited
                /\ stack' = e.stack
                /\ pushed' = e.pushed
                /\ fill_log' = e.fill_log
    /\ UNCHANGED <<grid, grid0, best_solution, min_length, pc, result>>
    /\ UNCHANGED fill_vars

\* Lines 181 and 243-247: the stack is empty, best_solution is returned.
Return ==
    /\ pc = "loop"
    /\ stack = << >>
    /\ pc' = "done"
    /\ result' = best_solution
    /\ UNCHANGED <<grid, grid0, stack, visited, best_solution, min_length,
                   pushed, fill_log>>
    /\ UNCHANGED fill_vars

(***************************************************************************)
(* One call of flood_fill, step by step.                                   *)
(***************************************************************************)

\* Lines 72-90.
FillCall ==
    /\ fill_pc = "enter"
    /\ LET fr == FillEnter(self, target_color)
       IN /\ source_color' = fr.source_color
          /\ fill_stack' = fr.stack
          /\ fill_visited' = fr.visited
          /\ fill_pc' = fr.pc
    /\ UNCHANGED <<self, self0, target_color>>
    /\ UNCHANGED solve_vars

\* Lines 92-135: one iteration of the loop.
FillPop ==
    /\ fill_pc = "loop"
    /\ fill_stack # << >>
    /\ LET fr == FillIter(self.width, self.height,
                          [data |-> self.data, source_color |-> source_color,
                           target_color |-> target_color, stack |-> fill_stack,
                           visited |-> fill_visited, pc |-> "loop"])
       IN /\ self' = [self EXCEPT !.data = fr.data]
          /\ fill_stack' = fr.stack
          /\ fill_visited' = fr.visited
          /\ fill_pc' = fr.pc
    /\ UNCHANGED <<self0, target_color, source_color>>
    /\ UNCHANGED solve_vars

\* Lines 92 and 136: the stack is empty, the call returns.
FillReturn ==
    /\ fill_pc = "loop"
    /\ fill_stack = << >>
    /\ fill_pc' = "done"
    /\ UNCHANGED <<self, self0, target_color, source_color, fill_stack, fill_visited>>
    /\ UNCHANGED solve_vars

(***************************************************************************)
(* Specifications.                                                         *)
(***************************************************************************)

\* Grid::new(1, 1, 1) (lines 15-22): the value of the half that is not running.
NoGrid == MkGrid(1, 1, 1, [c \in Cells(1, 1) |-> 0])

SolveIdle ==
    /\ grid = NoGrid
    /\ grid0 = NoGrid
    /\ stack = << >>
    /\ visited = {}
    /\ best_solution = << >>
    /\ min_length = 0
    /\ pc = "idle"
    /\ result = << >>
    /\ pushed = << >>
    /\ fill_log = << >>

FillIdle ==
    /\ self = NoGrid
    /\ self0 = NoGrid
    /\ target_color = 0
    /\ source_color = 0
    /\ fill_stack = << >>
    /\ fill_visited = [c \in Cells(1, 1) |-> FALSE]
    /\ fill_pc = "idle"

Init ==
    /\ grid \in Grids \cup TestGrids \cup ExtraGrids
    /\ grid0 = grid
    /\ stack = << >>
    /\ visited = {}
    /\ best_solution = << >>
    /\ min_length = 0
    /\ pc = "begin"
    /\ result = << >>
    /\ pushed = << >>
    /\ fill_log = << >>
    /\ FillIdle

Next == Begin \/ Seed \/ PopPrune \/ PopComplete \/ PopExpand \/ Return

Spec == Init /\ [][Next]_vars

\* solve is one sequential loop: a step that can be taken is taken.
SpecLive == Init /\ [][Next]_vars /\ WF_vars(Next)

InitFill ==
    /\ self \in Grids
    /\ self0 = self
    /\ target_color \in 0 .. (MaxColors - 1)
    /\ source_color = 0
    /\ fill_stack = << >>
    /\ fill_visited = [c \in Cells(self.width, self.height) |-> FALSE]
    /\ fill_pc = "enter"
    /\ SolveIdle

NextFill == FillCall \/ FillPop \/ FillReturn

SpecFill == InitFill /\ [][NextFill]_vars

(***************************************************************************)
(* Reference definitions used by the properties.                           *)
(***************************************************************************)

\* No two adjacent entries of a move sequence are equal.
NoRepeat(moves) == \A i \in 1 .. (Len(moves) - 1) : moves[i] # moves[i + 1]

\* Two cells are 4-neighbours.
Adjacent(c, d) ==
    \/ (c[1] = d[1] /\ (c[2] = d[2] + 1 \/ d[2] = c[2] + 1))
    \/ (c[2] = d[2] /\ (c[1] = d[1] + 1 \/ d[1] = c[1] + 1))

\* The maximal 4-connected set of cells of the origin's colour that contains
\* the origin, as the least fixed point of "add a same-coloured neighbour".
RECURSIVE Grow(_, _)
Grow(data, S) ==
    LET T == S \cup {c \in DOMAIN data :
                        /\ data[c] = data[<<0, 0>>]
                        /\ \E d \in S : Adjacent(c, d)}
    IN IF T = S THEN S ELSE Grow(data, T)

OriginRegion(data) == Grow(data, {<<0, 0>>})

\* The least number of flood fills that make g monochrome, by breadth-first
\* search over all move sequences (level d holds the grids reachable by d moves).
MinMoves(g) ==
    LET RECURSIVE Level(_, _, _)
        Level(frontier, seen, d) ==
            IF \E f \in frontier : is_complete(f) THEN d
            ELSE LET next == {flood_fill(f, c) : f \in frontier,
                                                  c \in 0 .. (g.colors - 1)} \ seen
                 IN Level(next, seen \cup next, d + 1)
    IN Level({g}, {g}, 0)

\* The colors whose single flood fill completes g.
OneMoveColors(g) == {c \in 0 .. (g.colors - 1) : is_complete(flood_fill(g, c))}

(***************************************************************************)
(* Properties of solve, under Spec.                                        *)
(***************************************************************************)

\* C1: when solve returns, applying the returned sequence move by move with
\* flood_fill to a copy of the original grid leaves a complete grid; for a
\* grid that was not monochrome the returned sequence is not empty.
C1_SolveCompletes ==
    pc = "done" =>
        /\ apply_solution(grid0, result)
        /\ (~is_complete(grid0) => result # << >>)

C1_Witness ==
    /\ pc = "done"
    /\ ~is_complete(grid0)
    /\ Len(result) >= 3
    /\ apply_solution(grid0, result)

\* C2: for a grid of at most 4x4 cells and at most 3 colors, the length of the
\* sequence solve returns is the least number of flood fills that complete
\* the grid.
C2_SolveMinimal ==
    (pc = "done" /\ grid0.width <= 4 /\ grid0.height <= 4 /\ grid0.colors <= 3)
        => Len(result) = MinMoves(grid0)

\* C5: on a grid that is monochrome at the call, solve returns the empty
\* sequence and never seeds: the work list and the visited set stay empty and
\* the search is never entered.
C5_CompleteShortCircuit ==
    is_complete(grid0) =>
        /\ pc \in {"begin", "done"}
        /\ stack = << >>
        /\ visited = {}
        /\ (pc = "done" => result = << >>)

C5_Witness ==
    /\ pc = "done"
    /\ is_complete(grid0)
    /\ grid0.colors >= 2
    /\ grid0.width * grid0.height >= 2
    /\ result = << >>

\* C6: no two adjacent moves are equal in the moves of any search state on
\* the work list, in the best solution, or in the returned sequence.
C6_NoAdjacentEqual ==
    /\ \A i \in 1 .. Len(stack) : NoRepeat(stack[i].moves)
    /\ NoRepeat(best_solution)
    /\ NoRepeat(result)

C6_Witness ==
    /\ pc = "done"
    /\ Len(result) >= 3
    /\ NoRepeat(result)
    /\ \E i \in 1 .. (Len(result) - 2) : result[i] = result[i + 2]

\* C7: on the 4x4 sample grid solve returns exactly [2,1,2,0,1], and applying
\* that sequence completes the grid.
C7_SampleSolution ==
    (pc = "done" /\ grid0 = SampleGrid) =>
        /\ result = <<2, 1, 2, 0, 1>>
        /\ apply_solution(grid0, result)

C7_Witness ==
    /\ pc = "done"
    /\ grid0 = SampleGrid
    /\ Len(result) = 5

\* C8: for a grid that is not monochrome and that one flood fill with color c
\* completes, solve returns exactly [c].
C8_OneMoveSolution ==
    (pc = "done" /\ ~is_complete(grid0)) =>
        \A c \in OneMoveColors(grid0) : result = <<c>>

\* The one-move color is not the highest color, so its seed is not the first
\* state popped: other branches are searched before it.
C8_Witness ==
    /\ pc = "done"
    /\ ~is_complete(grid0)
    /\ \E c \in OneMoveColors(grid0) : result = <<c>> /\ c + 1 < grid0.colors
    /\ Cardinality(visited) >= 3

\* C9: solve leaves its input grid as it was at the call: cells, width,
\* height and color count.
C9_InputUnchanged == grid = grid0

C9_Witness ==
    /\ pc = "done"
    /\ Len(result) >= 2
    /\ grid = grid0

\* C10: min_length and the lengths of the best and of the returned sequence
\* never exceed width x height.
C10_LengthBounded ==
    /\ min_length <= grid0.width * grid0.height
    /\ Len(best_solution) <= grid0.width * grid0.height
    /\ Len(result) <= grid0.width * grid0.height

C10_Witness ==
    /\ pc = "done"
    /\ result # << >>
    /\ min_length = Len(result)
    /\ Len(result) + 1 = grid0.width * grid0.height

(***************************************************************************)
(* Properties of flood_fill, under SpecFill.                               *)
(***************************************************************************)

\* C3: a flood fill with a target other than the origin's color recolors to
\* the target exactly the cells of the maximal 4-connected region of the
\* origin's color that contains the origin; every other cell keeps its color.
C3_FillsOriginRegion ==
    (fill_pc = "done" /\ target_color # self0.data[<<0, 0>>]) =>
        /\ self.data = [c \in DOMAIN self0.data |->
                           IF c \in OriginRegion(self0.data)
                           THEN target_color ELSE self0.data[c]]
        /\ self.width = self0.width
        /\ self.height = self0.height
        /\ self.colors = self0.colors

\* A fill that took a turn, with a cell of the source color cut off from the
\* origin and a cell that already had the target color.
C3_Witness ==
    /\ fill_pc = "done"
    /\ target_color # self0.data[<<0, 0>>]
    /\ Cardinality(OriginRegion(self0.data)) >= 3
    /\ \E c \in DOMAIN self0.data :
           /\ self0.data[c] = self0.data[<<0, 0>>]
           /\ c \notin OriginRegion(self0.data)
           /\ self.data[c] = self0.data[c]
    /\ \E c \in DOMAIN self0.data : self0.data[c] = target_color

\* C4: a flood fill with the origin's current color returns at once: every
\* cell keeps its color, nothing is pushed and no cell is marked visited.
C4_SameColorNoOp ==
    (fill_pc # "idle" /\ target_color = self0.data[<<0, 0>>]) =>
        /\ self = self0
        /\ fill_pc \in {"enter", "done"}
        /\ fill_stack = << >>
        /\ \A c \in DOMAIN fill_visited : ~fill_visited[c]

C4_Witness ==
    /\ fill_pc = "done"
    /\ target_color = self0.data[<<0, 0>>]
    /\ ~is_complete(self0)
    /\ self = self0

(***************************************************************************)
(* Properties of the search loop of solve, under Spec and SpecLive.        *)
(***************************************************************************)

\* The entry stack.pop() would return.
Top == stack[Len(stack)]

\* The last move of a search state.
LastMove(state) == state.moves[Len(state.moves)]

\* C11: the search terminates: under SpecLive solve eventually returns with
\* an empty work list, and every step of the loop pops one entry and pushes
\* exactly as many entries as it adds snapshots to the visited set.
C11_Terminates ==
    /\ <>(pc = "done" /\ stack = << >>)
    /\ [][(pc = "loop" /\ pc' = "loop") =>
            /\ visited \subseteq visited'
            /\ Len(stack') + 1 =
                   Len(stack) + Cardinality(visited') - Cardinality(visited)]_vars

C11_Witness ==
    /\ pc = "done"
    /\ stack = << >>
    /\ Len(pushed) >= 5
    /\ Cardinality(visited) = Len(pushed)

\* C12: the snapshots of the states pushed so far are pairwise different and
\* each is in the visited set; a push happens exactly when an insert succeeds.
C12_NoSnapshotPushedTwice ==
    /\ \A i, j \in 1 .. Len(pushed) :
           i # j => pushed[i].grid_state # pushed[j].grid_state
    /\ \A i \in 1 .. Len(pushed) : pushed[i].grid_state \in visited
    /\ Cardinality(visited) = Len(pushed)

\* Some flood fill gave a snapshot that was already visited and was not pushed.
C12_Witness ==
    /\ pc = "done"
    /\ Len(pushed) >= 5
    /\ Len(fill_log) > Len(pushed)

\* C13: no search state is ever pushed whose snapshot equals the cells of the
\* initial grid.
C13_InitialNeverPushed ==
    \A i \in 1 .. Len(pushed) : pushed[i].grid_state # grid0.data

\* C14: the snapshot of every search state on the work list is the result of
\* applying its moves in order with flood_fill to the initial grid.
C14_SnapshotMatchesMoves ==
    \A i \in 1 .. Len(stack) :
        stack[i].grid_state = apply_moves(grid0, stack[i].moves).data

C14_Witness ==
    /\ pc = "loop"
    /\ \E i \in 1 .. Len(stack) : Len(stack[i].moves) >= 3

\* C15: in the loop the best solution and min_length change only together,
\* to the moves of a popped complete state strictly shorter than min_length;
\* so min_length never grows, a complete state of equal length does not
\* replace the best, and the best is what solve returns.
C15_BestOnlyImproves ==
    [][pc = "loop" =>
         /\ \/ (best_solution' = best_solution /\ min_length' = min_length)
            \/ /\ stack # << >>
               /\ is_complete(TempGrid(grid0, Top))
               /\ Len(Top.moves) < min_length
               /\ best_solution' = Top.moves
               /\ min_length' = Len(Top.moves)
         /\ (pc' = "done" => result' = best_solution)]_vars

\* A best solution is recorded and a strictly shorter complete state is on
\* top of the work list.
C15_TieWitness ==
    /\ pc = "loop"
    /\ best_solution # << >>
    /\ stack # << >>
    /\ is_complete(TempGrid(grid0, Top))
    /\ Len(Top.moves) = min_length

C15_Witness ==
    /\ pc = "loop"
    /\ best_solution # << >>
    /\ stack # << >>
    /\ is_complete(TempGrid(grid0, Top))
    /\ Len(Top.moves) < min_length

\* C16: a popped state with at least min_length moves is only removed: the
\* best solution, min_length and the visited set stay, nothing is flood-filled
\* and nothing is pushed.
C16_PrunedIsDiscarded ==
    [][(pc = "loop" /\ stack # << >> /\ Len(Top.moves) >= min_length) =>
         /\ stack' = SubSeq(stack, 1, Len(stack) - 1)
         /\ UNCHANGED <<best_solution, min_length, visited, pushed, fill_log, pc>>]_vars

\* An incomplete state at the bound is on top of the work list.
C16_Witness ==
    /\ pc = "loop"
    /\ stack # << >>
    /\ best_solution # << >>
    /\ Len(Top.moves) >= min_length
    /\ ~is_complete(TempGrid(grid0, Top))

\* C17: every flood fill solve makes while seeding or expanding has a target
\* other than the origin color of the grid it is applied to, and every move of
\* every state on the work list changes the color of cell (0,0).
C17_NoWastedFill ==
    /\ \A i \in 1 .. Len(fill_log) : fill_log[i].origin # fill_log[i].target
    /\ \A i \in 1 .. Len(stack) :
           \A k \in 1 .. Len(stack[i].moves) :
               apply_moves(grid0, SubSeq(stack[i].moves, 1, k - 1)).data[<<0, 0>>]
                   # stack[i].moves[k]

C17_Witness ==
    /\ pc = "loop"
    /\ Len(fill_log) >= 6
    /\ \E i \in 1 .. Len(stack) : Len(stack[i].moves) >= 3

\* C18: in every state on the work list the origin color of the snapshot is
\* the last move, so line 219 skips a color exactly when it is the origin
\* color: the test against the previous move never decides.
C18_RepeatRuleRedundant ==
    \A i \in 1 .. Len(stack) :
        /\ stack[i].grid_state[<<0, 0>>] = LastMove(stack[i])
        /\ \A c \in 0 .. (grid0.colors - 1) :
               SkipColor(c, TempGrid(grid0, stack[i]), stack[i].moves)
                   <=> (c = stack[i].grid_state[<<0, 0>>])

C18_Witness ==
    /\ pc = "loop"
    /\ grid0.colors >= 3
    /\ \E i \in 1 .. Len(stack) :
           /\ Len(stack[i].moves) >= 2
           /\ stack[i].grid_state[<<0, 0>>] = LastMove(stack[i])

\* C20: during the search and at its return either no solution is recorded
\* and min_length is width x height, or min_length is the length of the
\* recorded solution and applying it to the initial grid completes it.
C20_TrackerConsistent ==
    (pc \in {"seed", "loop"} \/ (pc = "done" /\ ~is_complete(grid0))) =>
        \/ (best_solution = << >> /\ min_length = grid0.width * grid0.height)
        \/ /\ best_solution # << >>
           /\ min_length = Len(best_solution)
           /\ apply_solution(grid0, best_solution)

C20_Witness ==
    /\ pc = "loop"
    /\ stack # << >>
    /\ best_solution # << >>
    /\ min_length = Len(best_solution)

(***************************************************************************)
(* The traversal stack of flood_fill, under SpecFill.                      *)
(***************************************************************************)

\* C19: every coordinate on the traversal stack, hence every coordinate
\* popped, lies inside the grid, and the assertion of line 94 never fails.
C19_PoppedInBounds ==
    /\ fill_pc # "panic"
    /\ \A i \in 1 .. Len(fill_stack) :
           /\ 0 <= fill_stack[i][1] /\ fill_stack[i][1] < self.width
           /\ 0 <= fill_stack[i][2] /\ fill_stack[i][2] < self.height

\* The far corner of a grid with one row or one column is on the stack.
C19_Witness ==
    /\ fill_pc = "loop"
    /\ (self.width = 1 \/ self.height = 1)
    /\ self.width * self.height >= 3
    /\ \E i \in 1 .. Len(fill_stack) :
           fill_stack[i] = <<self.width - 1, self.height - 1>>

====
